---- MODULE Spec2Model ----
(***************************************************************************)
(* log-lazy: the level-gated lazy logger built by makeLog (src/index.js).  *)
(* The state is one logger instance: its levels table, its reverse table,  *)
(* its output bindings and its mask, the presets and output functions it   *)
(* was constructed with, and a record of the operation in progress: what   *)
(* the caller passed and what the operation did.  Beside it stand the      *)
(* exported static tables, a second logger made by another makeLog, the    *)
(* LazyLog class with its static table and its instances, and the events   *)
(* of the log calls whose function arguments use the logger themselves.    *)
(***************************************************************************)
EXTENDS Integers, Sequences, FiniteSets, TLC

VARIABLES options, logLevels, logLevelNames, externalLog, currentLevel, last,
          staticLevels, staticLevelNames, second, LazyLog, events

vars == <<options, logLevels, logLevelNames, externalLog, currentLevel, last,
          staticLevels, staticLevelNames, second, LazyLog, events>>

-----------------------------------------------------------------------------
(* JavaScript values.  typeof is the field t, except for null, whose       *)
(* typeof is "object" and which is kept apart by its own tag.              *)

Num(n) == [t |-> "number", n |-> n]

Str(s) == [t |-> "string", s |-> s]

Bool(b) == [t |-> "boolean", b |-> b]

Arr(items) == [t |-> "array", items |-> items]

Undefined == [t |-> "undefined"]

Null == [t |-> "null"]

\* an object literal without a message property
PlainObject == [t |-> "object"]

\* new Error(m)
ErrorObj(m) == [t |-> "error", message |-> Str(m)]

\* the TypeError raised by reading a property of null or undefined
TypeErrorObj == [t |-> "error", message |-> Str("Cannot read properties")]

\* a function that returns v / that throws e when called
Returning(v) == [t |-> "function", act |-> "return", v |-> v]

Throwing(e) == [t |-> "function", act |-> "throw", v |-> e]

\* a member every plain object inherits from Object.prototype
InheritedMember(name) == [t |-> "function", act |-> "builtin", v |-> Str(name)]

ObjectPrototypeKeys == {"constructor", "toString", "valueOf", "hasOwnProperty"}

-----------------------------------------------------------------------------
(* The bitwise operators work on 32-bit two's complement integers.  Every  *)
(* number of this model is an integer of that range, which ToInt32 leaves  *)
(* unchanged; BitAnd and BitOr go through the bits of both operands.       *)

\* ToInt32(ToNumber(v)): a function converts to NaN, and NaN to 0
ToInt32V(v) == IF v.t = "number" THEN v.n ELSE 0

RECURSIVE BitAnd(_, _)
BitAnd(a, b) ==
  IF a = 0 \/ b = 0 THEN 0
  ELSE IF a = -1 THEN b
  ELSE IF b = -1 THEN a
  ELSE (a % 2) * (b % 2) + 2 * BitAnd(a \div 2, b \div 2)

RECURSIVE BitOr(_, _)
BitOr(a, b) ==
  IF a = 0 THEN b
  ELSE IF b = 0 THEN a
  ELSE IF a = -1 \/ b = -1 THEN -1
  ELSE (IF a % 2 = 1 \/ b % 2 = 1 THEN 1 ELSE 0) + 2 * BitOr(a \div 2, b \div 2)

BitNot(a) == (-a) - 1

\* x & y, x | y, ~x on JavaScript values
JsAnd(x, y) == Num(BitAnd(ToInt32V(x), ToInt32V(y)))

JsOr(x, y) == Num(BitOr(ToInt32V(x), ToInt32V(y)))

JsNot(x) == Num(BitNot(ToInt32V(x)))

-----------------------------------------------------------------------------
(* parseInt(string) with no radix argument.                                *)

\* the characters of the strings the callers of this model pass
Chars ==
     ("none" :> <<"n","o","n","e">>)
  @@ ("all" :> <<"a","l","l">>)
  @@ ("fatal" :> <<"f","a","t","a","l">>)
  @@ ("error" :> <<"e","r","r","o","r">>)
  @@ ("warn" :> <<"w","a","r","n">>)
  @@ ("info" :> <<"i","n","f","o">>)
  @@ ("debug" :> <<"d","e","b","u","g">>)
  @@ ("verbose" :> <<"v","e","r","b","o","s","e">>)
  @@ ("trace" :> <<"t","r","a","c","e">>)
  @@ ("silly" :> <<"s","i","l","l","y">>)
  @@ ("production" :> <<"p","r","o","d","u","c","t","i","o","n">>)
  @@ ("development" :> <<"d","e","v","e","l","o","p","m","e","n","t">>)
  @@ ("custom" :> <<"c","u","s","t","o","m">>)
  @@ ("testing" :> <<"t","e","s","t","i","n","g">>)
  @@ ("bogus" :> <<"b","o","g","u","s">>)
  @@ ("constructor" :> <<"c","o","n","s","t","r","u","c","t","o","r">>)
  @@ ("16" :> <<"1","6">>)
  @@ ("16abc" :> <<"1","6","a","b","c">>)
  @@ ("0x10" :> <<"0","x","1","0">>)
  @@ (" -1" :> <<" ","-","1">>)
  @@ ("" :> <<>>)

DigitValue ==
     ("0" :> 0) @@ ("1" :> 1) @@ ("2" :> 2) @@ ("3" :> 3) @@ ("4" :> 4)
  @@ ("5" :> 5) @@ ("6" :> 6) @@ ("7" :> 7) @@ ("8" :> 8) @@ ("9" :> 9)
  @@ ("a" :> 10) @@ ("b" :> 11) @@ ("c" :> 12) @@ ("d" :> 13) @@ ("e" :> 14)
  @@ ("f" :> 15)

IsDigit(c, radix) == c \in DOMAIN DigitValue /\ DigitValue[c] < radix

RECURSIVE DigitsValue(_, _, _, _, _)
DigitsValue(cs, i, j, radix, acc) ==
  IF i >= j THEN acc
  ELSE DigitsValue(cs, i + 1, j, radix, acc * radix + DigitValue[cs[i]])

\* the first position that holds no white space
SkipWhiteSpace(cs) ==
  CHOOSE i \in 1..(Len(cs) + 1) :
    /\ \A k \in 1..(i - 1) : cs[k] = " "
    /\ (i = Len(cs) + 1 \/ cs[i] # " ")

\* the end of the longest run of digits that starts at position i
DigitsEnd(cs, i, radix) ==
  CHOOSE e \in i..(Len(cs) + 1) :
    /\ \A k \in i..(e - 1) : IsDigit(cs[k], radix)
    /\ (e = Len(cs) + 1 \/ ~IsDigit(cs[e], radix))

\* the digits from position i to before position j; what follows is ignored
ParseDigits(cs, i, j, radix, sign) ==
  IF j = i THEN [nan |-> TRUE, n |-> 0]
  ELSE [nan |-> FALSE, n |-> sign * DigitsValue(cs, i, j, radix, 0)]

\* after the sign: a 0x or 0X prefix makes the radix 16
ParseUnsigned(cs, i, sign) ==
  IF i + 1 <= Len(cs) /\ cs[i] = "0" /\ cs[i + 1] \in {"x", "X"}
  THEN ParseDigits(cs, i + 2, DigitsEnd(cs, i + 2, 16), 16, sign)
  ELSE ParseDigits(cs, i, DigitsEnd(cs, i, 10), 10, sign)

\* after the white space: an optional sign
ParseSigned(cs, i) ==
  IF i <= Len(cs) /\ cs[i] = "-" THEN ParseUnsigned(cs, i + 1, -1)
  ELSE IF i <= Len(cs) /\ cs[i] = "+" THEN ParseUnsigned(cs, i + 1, 1)
  ELSE ParseUnsigned(cs, i, 1)

\* [nan |-> TRUE] for NaN, else the integer
parseInt(s) == ParseSigned(Chars[s], SkipWhiteSpace(Chars[s]))

-----------------------------------------------------------------------------
(* The static tables.                                                      *)

levels ==
     ("none" :> 0) @@ ("fatal" :> 1) @@ ("error" :> 2) @@ ("warn" :> 4)
  @@ ("info" :> 8) @@ ("debug" :> 16) @@ ("verbose" :> 32) @@ ("trace" :> 64)
  @@ ("silly" :> 128) @@ ("all" :> 255) @@ ("production" :> 7)
  @@ ("development" :> 31)

levelNames ==
     (0 :> "none") @@ (1 :> "fatal") @@ (2 :> "error") @@ (4 :> "warn")
  @@ (8 :> "info") @@ (16 :> "debug") @@ (32 :> "verbose") @@ (64 :> "trace")
  @@ (128 :> "silly") @@ (255 :> "all") @@ (31 :> "development")
  @@ (7 :> "production")

\* the eight severities, in the order of their methods
SeverityOrder ==
  <<"fatal", "error", "warn", "info", "debug", "verbose", "trace", "silly">>

BaseNames == {SeverityOrder[i] : i \in 1..Len(SeverityOrder)}

\* obj[key] = value on a plain object
Put(obj, key, value) ==
  [k \in DOMAIN obj \cup {key} |-> IF k = key THEN value ELSE obj[k]]

\* levelsMap[key]: an own property, else what Object.prototype gives
Lookup(levelsMap, key) ==
  IF key \in DOMAIN levelsMap THEN Num(levelsMap[key])
  ELSE IF key \in ObjectPrototypeKeys THEN InheritedMember(key)
  ELSE Undefined

\* isNaN(parsed) ? defaultValue : parsed
ParsedOr(parsed, defaultValue) ==
  IF parsed.nan THEN defaultValue ELSE Num(parsed.n)

\* the string branch, value being levelsMap[level]
NamedOr(value, level, defaultValue) ==
  IF value # Undefined THEN value
  ELSE ParsedOr(parseInt(level.s), defaultValue)

getLevelOrDefault(level, levelsMap, defaultValue) ==
  IF level.t = "string" THEN NamedOr(Lookup(levelsMap, level.s), level, defaultValue)
  ELSE IF level.t = "number" THEN level
  ELSE defaultValue

-----------------------------------------------------------------------------
(* makeLog(options).  options.presets is the list of its keys with their   *)
(* values, in key order; options.log is the set of severities for which    *)
(* the caller gave an output function.                                     *)

\* options.presets?.[name]
PresetGet(presets, name) ==
  IF \E i \in 1..Len(presets) : presets[i].name = name
  THEN Num(presets[CHOOSE i \in 1..Len(presets) : presets[i].name = name].value)
  ELSE Undefined

Truthy(v) ==
  CASE v.t = "number" -> v.n # 0
    [] v.t = "string" -> v.s # ""
    [] v.t \in {"undefined", "null"} -> FALSE
    [] OTHER -> TRUE

\* v || d
OrElse(v, d) == IF Truthy(v) THEN v ELSE d

\* the forEach keeping the name a value already has in the reverse table
RECURSIVE AddPresetsKeepFirst(_, _, _)
AddPresetsKeepFirst(presets, i, tables) ==
  IF i > Len(presets) THEN tables
  ELSE IF presets[i].name \in {"production", "development"}
  THEN AddPresetsKeepFirst(presets, i + 1, tables)
  ELSE AddPresetsKeepFirst(presets, i + 1,
         [lv |-> Put(tables.lv, presets[i].name, presets[i].value),
          nm |-> IF presets[i].value \in DOMAIN tables.nm THEN tables.nm
                 ELSE Put(tables.nm, presets[i].value, presets[i].name)])

\* the forEach over Object.keys(options.presets), from key i on
RECURSIVE AddPresets(_, _, _)
AddPresets(presets, i, tables) ==
  IF i > Len(presets) THEN tables
  ELSE LET presetName == presets[i].name
       IN  IF presetName # "production" /\ presetName # "development"
           THEN AddPresets(presets, i + 1,
                  [lv |-> Put(tables.lv, presetName, presets[i].value),
                   nm |-> Put(tables.nm, presets[i].value, presetName)])
           ELSE AddPresets(presets, i + 1, tables)

\* the function the caller gave for a severity, and the console's functions
CustomFn(name) == "options.log." \o name

DefaultFn(name) ==
  IF name \in {"fatal", "error"} THEN "console.error"
  ELSE IF name = "warn" THEN "console.warn"
  ELSE "console.log"

makeLog(o) ==
  LET l0 == levels
      n0 == levelNames
      production == OrElse(PresetGet(o.presets, "production"),
                      Num(BitOr(BitOr(l0["fatal"], l0["error"]), l0["warn"]))).n
      development == OrElse(PresetGet(o.presets, "development"),
                       Num(BitOr(BitOr(BitOr(BitOr(l0["fatal"], l0["error"]),
                                l0["warn"]), l0["info"]), l0["debug"]))).n
      l1 == Put(Put(l0, "production", production), "development", development)
      n1 == Put(Put(n0, production, "production"), development, "development")
      t == AddPresets(o.presets, 1, [lv |-> l1, nm |-> n1])
  IN  [logLevels |-> t.lv,
       logLevelNames |-> t.nm,
       currentLevel |-> getLevelOrDefault(o.level, t.lv, Num(t.lv["info"])),
       externalLog |-> [name \in BaseNames |->
                          IF name \in o.log THEN CustomFn(name) ELSE DefaultFn(name)]]

-----------------------------------------------------------------------------
(* The LazyLog class.  Its static levels table is one object: the          *)
(* constructor binds this.levels to that object and writes the presets     *)
(* into it, while this.levelNames is a copy of the static reverse table.   *)

LazyLogLevels ==
     ("none" :> 0) @@ ("fatal" :> 1) @@ ("error" :> 2) @@ ("warn" :> 4)
  @@ ("info" :> 8) @@ ("debug" :> 16) @@ ("verbose" :> 32) @@ ("trace" :> 64)
  @@ ("silly" :> 128) @@ ("all" :> 255)

LazyLogLevelNames ==
     (0 :> "none") @@ (1 :> "fatal") @@ (2 :> "error") @@ (4 :> "warn")
  @@ (8 :> "info") @@ (16 :> "debug") @@ (32 :> "verbose") @@ (64 :> "trace")
  @@ (128 :> "silly") @@ (255 :> "all")

\* this.levels.production and this.levels.development as the constructor
\* sets them, shared being the static table when the constructor starts
LazyProduction(shared, o) ==
  OrElse(PresetGet(o.presets, "production"),
         Num(BitOr(BitOr(shared["fatal"], shared["error"]), shared["warn"]))).n

LazyDevelopment(shared, o) ==
  OrElse(PresetGet(o.presets, "development"),
         Num(BitOr(BitOr(BitOr(BitOr(shared["fatal"], shared["error"]),
                  shared["warn"]), shared["info"]), shared["debug"]))).n

\* the static table and the new instance's reverse table after the presets
LazyTables(shared, o) ==
  AddPresets(o.presets, 1,
    [lv |-> Put(Put(shared, "production", LazyProduction(shared, o)),
                "development", LazyDevelopment(shared, o)),
     nm |-> Put(Put(LazyLogLevelNames, LazyProduction(shared, o), "production"),
                LazyDevelopment(shared, o), "development")])

\* new LazyLog(o): the static table as the constructor leaves it, and the
\* fields of the instance; its levels field is the static table itself
newLazyLog(shared, o) ==
  [levels |-> LazyTables(shared, o).lv,
   instance |->
     [levelNames |-> LazyTables(shared, o).nm,
      level |-> getLevelOrDefault(o.level, LazyTables(shared, o).lv,
                                  Num(LazyTables(shared, o).lv["info"])),
      presets |-> o.presets]]

\* the class after the module has made defaultLogger = new LazyLog()
LazyLogLoaded ==
  [levels |-> newLazyLog(LazyLogLevels,
                         [level |-> Undefined, presets |-> <<>>, log |-> {}]).levels,
   instances |-> <<newLazyLog(LazyLogLevels,
                     [level |-> Undefined, presets |-> <<>>, log |-> {}]).instance>>]

-----------------------------------------------------------------------------
(* The operations of a logger.                                             *)

\* shouldLog with | written for &
shouldLogAnyBit(level) ==
  IF currentLevel = Num(0) THEN FALSE
  ELSE JsOr(currentLevel, getLevelOrDefault(level, logLevels, Num(0))).n # 0

\* shouldLog asking for every bit of the level
shouldLogAllBits(level) ==
  IF currentLevel = Num(0) THEN FALSE
  ELSE JsAnd(currentLevel, getLevelOrDefault(level, logLevels, Num(0)))
         = Num(ToInt32V(getLevelOrDefault(level, logLevels, Num(0))))

\* shouldLog with the default of the level setter: the info bit
shouldLogInfoDefault(level) ==
  IF currentLevel = Num(0) THEN FALSE
  ELSE JsAnd(currentLevel,
             getLevelOrDefault(level, logLevels, Num(logLevels["info"]))).n # 0

\* shouldLog with === written for &
shouldLogWhenEqual(level) ==
  IF currentLevel = Num(0) THEN FALSE
  ELSE currentLevel = getLevelOrDefault(level, logLevels, Num(0))

shouldLog(level) ==
  IF currentLevel = Num(0) THEN FALSE
  ELSE LET levelFlag == getLevelOrDefault(level, logLevels, Num(0))
       IN  JsAnd(currentLevel, levelFlag).n # 0

NoException == [t |-> "none"]

\* error.message
Message(error) == IF error.t = "error" THEN error.message ELSE Undefined

\* the text a value gets in a template literal
TemplateText(v) ==
  CASE v.t = "string" -> v.s
    [] v.t = "undefined" -> "undefined"
    [] OTHER -> "null"

\* the map without the call: function arguments are passed on as they are
mapArgsUncalled(args, i, acc) ==
  [processed |-> args, invoked |-> <<>>, thrown |-> acc.thrown]

\* the map without the try: what a function argument throws ends the call
RECURSIVE mapArgsUncaught(_, _, _)
mapArgsUncaught(args, i, acc) ==
  IF i > Len(args) THEN acc
  ELSE IF args[i].t = "function" /\ args[i].act = "throw"
  THEN [processed |-> acc.processed,
        invoked |-> Append(acc.invoked, [pos |-> i, argc |-> 0]),
        thrown |-> args[i].v]
  ELSE mapArgsUncaught(args, i + 1,
         [processed |-> Append(acc.processed,
                         IF args[i].t = "function" THEN args[i].v ELSE args[i]),
          invoked |-> IF args[i].t = "function"
                      THEN Append(acc.invoked, [pos |-> i, argc |-> 0])
                      ELSE acc.invoked,
          thrown |-> NoException])

\* args.map(arg => ...), from position i on: the processed arguments, the
\* calls made to the function arguments, and an exception that ended the map
RECURSIVE mapArgs(_, _, _)
mapArgs(args, i, acc) ==
  IF i > Len(args) THEN acc
  ELSE
    LET arg == args[i]
        called == Append(acc.invoked, [pos |-> i, argc |-> 0])
    IN  IF arg.t = "function" THEN
          IF arg.act = "throw" THEN
            LET error == arg.v
            IN  IF error.t \in {"null", "undefined"}
                THEN \* reading error.message raises inside the catch block
                     [processed |-> acc.processed, invoked |-> called,
                      thrown |-> TypeErrorObj]
                ELSE mapArgs(args, i + 1,
                       [processed |-> Append(acc.processed,
                          Str("[Error evaluating log argument function: "
                              \o TemplateText(Message(error)) \o "]")),
                        invoked |-> called, thrown |-> NoException])
          ELSE mapArgs(args, i + 1,
                 [processed |-> Append(acc.processed, arg.v),
                  invoked |-> called, thrown |-> NoException])
        ELSE mapArgs(args, i + 1,
               [processed |-> Append(acc.processed, arg),
                invoked |-> acc.invoked, thrown |-> NoException])

\* what one call of logMessage does: the function arguments it calls, the
\* output functions it calls and with what, the exception it raises
logMessage(level, args) ==
  IF ~shouldLog(level)
  THEN [invoked |-> <<>>, output |-> <<>>, thrown |-> NoException]
  ELSE
    LET m == mapArgs(args, 1,
               [processed |-> <<>>, invoked |-> <<>>, thrown |-> NoException])
        levelName == IF level.t = "number"
                     THEN IF level.n \in DOMAIN logLevelNames
                          THEN Str(logLevelNames[level.n]) ELSE Undefined
                     ELSE level
        bound == levelName.t = "string" /\ levelName.s \in DOMAIN externalLog
    IN  IF m.thrown # NoException
        THEN [invoked |-> m.invoked, output |-> <<>>, thrown |-> m.thrown]
        ELSE [invoked |-> m.invoked,
              output |-> IF bound
                         THEN <<[fn |-> externalLog[levelName.s],
                                 args |-> m.processed]>>
                         ELSE <<>>,
              thrown |-> NoException]

\* log(...) passing logLevels.debug
MethodLevelLogDebug(method) ==
  IF method = "log" THEN Num(logLevels["debug"]) ELSE Num(logLevels[method])

\* the level a method passes to logMessage: log(...) passes logLevels.info
MethodLevel(method) ==
  IF method = "log" THEN Num(logLevels["info"]) ELSE Num(logLevels[method])

\* enableLevel with = written for |=
enableLevelAssign(level) ==
  Num(ToInt32V(getLevelOrDefault(level, logLevels, Num(0))))

enableLevel(level) ==
  LET levelFlag == getLevelOrDefault(level, logLevels, Num(0))
  IN  JsOr(currentLevel, levelFlag)

\* disableLevel without the ~
disableLevelKeep(level) ==
  JsAnd(currentLevel, getLevelOrDefault(level, logLevels, Num(0)))

disableLevel(level) ==
  LET levelFlag == getLevelOrDefault(level, logLevels, Num(0))
  IN  JsAnd(currentLevel, JsNot(levelFlag))

\* getEnabledLevels reading the mask as a threshold
getEnabledLevelsUpTo ==
  SelectSeq(SeverityOrder,
            LAMBDA name : logLevels[name] <= ToInt32V(currentLevel))

getEnabledLevels ==
  SelectSeq(SeverityOrder,
            LAMBDA name : JsAnd(currentLevel, Num(logLevels[name])).n # 0)

\* the level setter
setLevel(value) == getLevelOrDefault(value, logLevels, Num(logLevels["info"]))

\* the level getter
getLevel == currentLevel

\* shouldLog, enableLevel and disableLevel as they run when the mask is
\* mask: after an earlier operation, or in the middle of a log call
shouldLogAt(mask, level) ==
  IF mask = Num(0) THEN FALSE
  ELSE JsAnd(mask, getLevelOrDefault(level, logLevels, Num(0))).n # 0

enableLevelAt(mask, level) ==
  JsOr(mask, getLevelOrDefault(level, logLevels, Num(0)))

disableLevelAt(mask, level) ==
  JsAnd(mask, JsNot(getLevelOrDefault(level, logLevels, Num(0))))

-----------------------------------------------------------------------------
(* Log calls whose function arguments use the logger: they disable a       *)
(* level, assign the level, or log.  Everything is synchronous, so what a  *)
(* function argument does happens inside args.map, at its position: the    *)
(* events of a call are kept in the order in which they happen.            *)

\* () => { log.disableLevel(ref); return v }
Disabling(ref, v) ==
  [t |-> "function", act |-> "disableLevel", ref |-> ref, v |-> v]

\* () => { log.level = ref; return v }
Assigning(ref, v) ==
  [t |-> "function", act |-> "level", ref |-> ref, v |-> v]

\* () => { log[method](arg); return v }
Logging(method, arg, v) ==
  [t |-> "function", act |-> "log", method |-> method, arg |-> arg, v |-> v]

\* a call is entered, calls a function argument, calls an output function,
\* and is left; call is <<n>> for the n-th call of the caller and <<n, i>>
\* for the call made by the function argument at position i of that call
Event(kind, call, pos, fn, args) ==
  [kind |-> kind, call |-> call, pos |-> pos, fn |-> fn, args |-> args]

\* the end of logMessage: the output function of the level's name, if any
outputEvents(level, processed, id) ==
  IF /\ level.t = "number"
     /\ level.n \in DOMAIN logLevelNames
     /\ logLevelNames[level.n] \in DOMAIN externalLog
  THEN <<Event("output", id, 0, externalLog[logLevelNames[level.n]], processed)>>
  ELSE <<>>

\* log[method](arg) called by a function argument while the mask is mask
nestedCall(method, arg, mask, id) ==
  <<Event("enter", id, 0, "", <<>>)>>
    \o (IF shouldLogAt(mask, MethodLevel(method))
        THEN outputEvents(MethodLevel(method), <<arg>>, id)
        ELSE <<>>)
    \o <<Event("leave", id, 0, "", <<>>)>>

\* the mask after the function argument arg has run
maskAfterArg(arg, mask) ==
  CASE arg.act = "disableLevel" -> disableLevelAt(mask, arg.ref)
    [] arg.act = "level" -> setLevel(arg.ref)
    [] OTHER -> mask

\* args.map(arg => ...) from position i on, in the call id: the processed
\* arguments, the events, the mask, and an exception that ended the map
RECURSIVE runArgs(_, _, _, _)
runArgs(args, i, id, acc) ==
  IF i > Len(args) THEN acc
  ELSE IF args[i].t # "function"
  THEN runArgs(args, i + 1, id, [acc EXCEPT !.processed = Append(@, args[i])])
  ELSE IF args[i].act = "throw"
  THEN IF args[i].v.t \in {"null", "undefined"}
       THEN [acc EXCEPT !.events = Append(@, Event("thunk", id, i, "", <<>>)),
                        !.thrown = TypeErrorObj]
       ELSE runArgs(args, i + 1, id,
              [acc EXCEPT
                 !.processed = Append(@,
                    Str("[Error evaluating log argument function: "
                        \o TemplateText(Message(args[i].v)) \o "]")),
                 !.events = Append(@, Event("thunk", id, i, "", <<>>))])
  ELSE runArgs(args, i + 1, id,
         [processed |-> Append(acc.processed, args[i].v),
          events |-> Append(acc.events, Event("thunk", id, i, "", <<>>))
                       \o (IF args[i].act = "log"
                           THEN nestedCall(args[i].method, args[i].arg,
                                           acc.mask, Append(id, i))
                           ELSE <<>>),
          mask |-> maskAfterArg(args[i], acc.mask),
          thrown |-> NoException])

\* a nested output held back until the enclosing call has given its own
finishCallNestedLast(level, id, ran) ==
  [events |-> <<Event("enter", id, 0, "", <<>>)>>
                \o SelectSeq(ran.events, LAMBDA e : e.kind # "output")
                \o outputEvents(level, ran.processed, id)
                \o SelectSeq(ran.events, LAMBDA e : e.kind = "output")
                \o <<Event("leave", id, 0, "", <<>>)>>,
   mask |-> ran.mask,
   thrown |-> ran.thrown]

\* the gate asked a second time, after the function arguments have run
finishCallRegated(level, id, ran) ==
  [events |-> <<Event("enter", id, 0, "", <<>>)>>
                \o ran.events
                \o (IF ran.thrown = NoException /\ shouldLogAt(ran.mask, level)
                    THEN outputEvents(level, ran.processed, id) ELSE <<>>)
                \o <<Event("leave", id, 0, "", <<>>)>>,
   mask |-> ran.mask,
   thrown |-> ran.thrown]

\* logMessage after args.map: the output function is called unless the map
\* was ended by an exception
finishCall(level, id, ran) ==
  [events |-> <<Event("enter", id, 0, "", <<>>)>>
                \o ran.events
                \o (IF ran.thrown = NoException
                    THEN outputEvents(level, ran.processed, id) ELSE <<>>)
                \o <<Event("leave", id, 0, "", <<>>)>>,
   mask |-> ran.mask,
   thrown |-> ran.thrown]

\* logMessage(level, ...args) as the call id, the mask being mask when it
\* starts: its events, the mask when it returns, the exception it raises
runCall(level, args, mask, id) ==
  IF ~shouldLogAt(mask, level)
  THEN [events |-> <<Event("enter", id, 0, "", <<>>),
                     Event("leave", id, 0, "", <<>>)>>,
        mask |-> mask,
        thrown |-> NoException]
  ELSE finishCall(level, id,
         runArgs(args, 1, id,
                 [processed |-> <<>>, events |-> <<>>, mask |-> mask,
                  thrown |-> NoException]))

-----------------------------------------------------------------------------
(* What the callers pass.                                                  *)

\* the longest argument list of a call
MaxArgs == 2

\* level references: names, numeric and other strings, numbers, no value
LevelRefs ==
  {Str(s) : s \in {"error", "warn", "info", "all", "none", "production",
                   "custom", "bogus", "constructor", "16", "16abc"}}
  \cup {Num(8), Num(3), Num(512), Num(-1), Undefined, Null}

FewRefs == {Str("info"), Str("none")}

Preset(name, value) == [name |-> name, value |-> value]

PresetOptions ==
  {<<>>,
   <<Preset("production", 15)>>,
   <<Preset("development", 63)>>,
   <<Preset("production", 0)>>,
   <<Preset("custom", 100)>>,
   <<Preset("custom", 8)>>,
   <<Preset("warn", 3)>>,
   <<Preset("error", 4)>>,
   <<Preset("custom", 100), Preset("testing", 100)>>}

LogOptions == {{}, {"error", "info"}}

Options ==
  [level : LevelRefs, presets : PresetOptions, log : LogOptions]

FewOptions ==
  [level : {Str("all"), Str("error")},
   presets : {<<>>, <<Preset("custom", 8)>>},
   log : LogOptions]

\* the arguments of a log call: plain values and functions
ArgValues ==
  {Str("a"), Undefined, Null,
   Returning(Str("y")),
   Throwing(ErrorObj("boom")), Throwing(Str("oops")), Throwing(PlainObject),
   Throwing(Null), Throwing(Undefined)}

ArgLists(n) == UNION {[1..k -> ArgValues] : k \in 0..n}

SampleArgs ==
  {<<>>, <<Str("a"), Returning(Str("y"))>>, <<Throwing(ErrorObj("boom"))>>}

Methods == BaseNames \cup {"log"}

-----------------------------------------------------------------------------
(* The state machine: construction, then any sequence of operations.       *)

Observed(op, method, ref, args, returned, outcome) ==
  [op |-> op, method |-> method, ref |-> ref, args |-> args,
   before |-> currentLevel, returned |-> returned,
   invoked |-> outcome.invoked, output |-> outcome.output,
   thrown |-> outcome.thrown]

Quiet == [invoked |-> <<>>, output |-> <<>>, thrown |-> NoException]

\* between two operations the caller holds nothing of the previous one
Idle ==
  [op |-> "idle", method |-> "", ref |-> Undefined, args |-> <<>>,
   before |-> Undefined, returned |-> Undefined,
   invoked |-> <<>>, output |-> <<>>, thrown |-> NoException]

\* no second logger has been made
NoInstance == [made |-> FALSE]

Construct(o) ==
  LET made == makeLog(o)
  IN  /\ staticLevels = levels
      /\ staticLevelNames = levelNames
      /\ second = NoInstance
      /\ LazyLog = LazyLogLoaded
      /\ events = <<>>
      /\ options = [presets |-> o.presets, log |-> o.log]
      /\ logLevels = made.logLevels
      /\ logLevelNames = made.logLevelNames
      /\ externalLog = made.externalLog
      /\ currentLevel = made.currentLevel
      /\ last = [op |-> "makeLog", method |-> "", ref |-> o.level, args |-> <<>>,
                 before |-> Undefined, returned |-> Undefined,
                 invoked |-> <<>>, output |-> <<>>, thrown |-> NoException]

\* log.fatal(...args) ... log.silly(...args), and log(...args)
Call(method, args) ==
  /\ last = Idle
  /\ last' = Observed("call", method, Undefined, args, Undefined,
                      logMessage(MethodLevel(method), args))
  /\ UNCHANGED <<staticLevels, staticLevelNames, second>>
  /\ UNCHANGED <<LazyLog, events>>
  /\ UNCHANGED <<options, logLevels, logLevelNames, externalLog, currentLevel>>

\* shouldLog keeping the flag it computed in the mask
ShouldLogStoringFlag(level) ==
  /\ last = Idle
  /\ currentLevel' = getLevelOrDefault(level, logLevels, Num(0))
  /\ last' = Observed("shouldLog", "", level, <<>>, Bool(shouldLog(level)), Quiet)
  /\ UNCHANGED <<staticLevels, staticLevelNames, second>>
  /\ UNCHANGED <<LazyLog, events>>
  /\ UNCHANGED <<options, logLevels, logLevelNames, externalLog>>

\* log.shouldLog(level)
ShouldLog(level) ==
  /\ last = Idle
  /\ last' = Observed("shouldLog", "", level, <<>>, Bool(shouldLog(level)), Quiet)
  /\ UNCHANGED <<staticLevels, staticLevelNames, second>>
  /\ UNCHANGED <<LazyLog, events>>
  /\ UNCHANGED <<options, logLevels, logLevelNames, externalLog, currentLevel>>

\* log.enableLevel(level)
EnableLevel(level) ==
  /\ last = Idle
  /\ currentLevel' = enableLevel(level)
  /\ last' = Observed("enableLevel", "", level, <<>>, Undefined, Quiet)
  /\ UNCHANGED <<staticLevels, staticLevelNames, second>>
  /\ UNCHANGED <<LazyLog, events>>
  /\ UNCHANGED <<options, logLevels, logLevelNames, externalLog>>

\* log.disableLevel(level)
DisableLevel(level) ==
  /\ last = Idle
  /\ currentLevel' = disableLevel(level)
  /\ last' = Observed("disableLevel", "", level, <<>>, Undefined, Quiet)
  /\ UNCHANGED <<staticLevels, staticLevelNames, second>>
  /\ UNCHANGED <<LazyLog, events>>
  /\ UNCHANGED <<options, logLevels, logLevelNames, externalLog>>

\* log.getEnabledLevels()
GetEnabledLevels ==
  /\ last = Idle
  /\ last' = Observed("getEnabledLevels", "", Undefined, <<>>,
                      Arr(getEnabledLevels), Quiet)
  /\ UNCHANGED <<staticLevels, staticLevelNames, second>>
  /\ UNCHANGED <<LazyLog, events>>
  /\ UNCHANGED <<options, logLevels, logLevelNames, externalLog, currentLevel>>

\* log.level = value
SetLevel(value) ==
  /\ last = Idle
  /\ currentLevel' = setLevel(value)
  /\ last' = Observed("setLevel", "", value, <<>>, Undefined, Quiet)
  /\ UNCHANGED <<staticLevels, staticLevelNames, second>>
  /\ UNCHANGED <<LazyLog, events>>
  /\ UNCHANGED <<options, logLevels, logLevelNames, externalLog>>

\* log.level
GetLevel ==
  /\ last = Idle
  /\ last' = Observed("getLevel", "", Undefined, <<>>, getLevel, Quiet)
  /\ UNCHANGED <<staticLevels, staticLevelNames, second>>
  /\ UNCHANGED <<LazyLog, events>>
  /\ UNCHANGED <<options, logLevels, logLevelNames, externalLog, currentLevel>>

\* the operation has run to completion and control is back with the caller
Return ==
  /\ last # Idle
  /\ last' = Idle
  /\ UNCHANGED <<staticLevels, staticLevelNames, second>>
  /\ UNCHANGED <<LazyLog, events>>
  /\ UNCHANGED <<options, logLevels, logLevelNames, externalLog, currentLevel>>

Init == \E o \in Options : Construct(o)

\* an operation starts when control is with the caller
Next ==
  \/ last = Idle /\ \E method \in Methods, args \in SampleArgs : Call(method, args)
  \/ last = Idle /\ \E level \in LevelRefs : ShouldLog(level)
  \/ last = Idle /\ \E level \in LevelRefs : EnableLevel(level)
  \/ last = Idle /\ \E level \in LevelRefs : DisableLevel(level)
  \/ GetEnabledLevels
  \/ last = Idle /\ \E value \in LevelRefs : SetLevel(value)
  \/ GetLevel
  \/ Return

Spec == Init /\ [][Next]_vars

\* the same logger, driven with every argument list up to MaxArgs
InitArgs == \E o \in FewOptions : Construct(o)

NextArgs ==
  \/ last = Idle /\ \E method \in Methods, args \in ArgLists(MaxArgs) : Call(method, args)
  \/ last = Idle /\ \E level \in FewRefs : ShouldLog(level)
  \/ last = Idle /\ \E level \in FewRefs : EnableLevel(level)
  \/ last = Idle /\ \E level \in FewRefs : DisableLevel(level)
  \/ GetEnabledLevels
  \/ last = Idle /\ \E value \in FewRefs : SetLevel(value)
  \/ GetLevel
  \/ Return

SpecArgs == InitArgs /\ [][NextArgs]_vars

-----------------------------------------------------------------------------
(* A second logger beside the first.  Each makeLog call has its own        *)
(* logLevels, logLevelNames and currentLevel: the tables are spread copies *)
(* of the static ones, the mask is a variable of the closure.              *)

\* a table that was copied with { ...table } after the copy was written to
AfterAlias(table, written) == written

AfterSpread(table, written) == table

\* what the second logger is made with, and the references it is given
SecondOptions ==
  [level : {Str("warn"), Num(512)}, presets : PresetOptions, log : {{}}]

SecondRefs == {Str("error"), Str("custom"), Str("bogus"), Num(-1)}

ObservedSecond(op, ref) == [Idle EXCEPT !.op = op, !.ref = ref]

\* const second = makeLog(o)
MakeSecond(o) ==
  /\ last = Idle
  /\ second' = makeLog(o)
  /\ staticLevels' = AfterSpread(staticLevels, makeLog(o).logLevels)
  /\ staticLevelNames' = AfterSpread(staticLevelNames, makeLog(o).logLevelNames)
  /\ last' = ObservedSecond("second.makeLog", o.level)
  /\ UNCHANGED <<LazyLog, events>>
  /\ UNCHANGED <<options, logLevels, logLevelNames, externalLog, currentLevel>>

\* second.level = value
SecondSetLevel(value) ==
  /\ last = Idle
  /\ second # NoInstance
  /\ second' = [second EXCEPT !.currentLevel =
                  getLevelOrDefault(value, second.logLevels,
                                    Num(second.logLevels["info"]))]
  /\ last' = ObservedSecond("second.setLevel", value)
  /\ UNCHANGED <<staticLevels, staticLevelNames>>
  /\ UNCHANGED <<LazyLog, events>>
  /\ UNCHANGED <<options, logLevels, logLevelNames, externalLog, currentLevel>>

\* second.enableLevel(level)
SecondEnableLevel(level) ==
  /\ last = Idle
  /\ second # NoInstance
  /\ second' = [second EXCEPT !.currentLevel =
                  JsOr(@, getLevelOrDefault(level, second.logLevels, Num(0)))]
  /\ last' = ObservedSecond("second.enableLevel", level)
  /\ UNCHANGED <<staticLevels, staticLevelNames>>
  /\ UNCHANGED <<LazyLog, events>>
  /\ UNCHANGED <<options, logLevels, logLevelNames, externalLog, currentLevel>>

\* second.disableLevel(level)
SecondDisableLevel(level) ==
  /\ last = Idle
  /\ second # NoInstance
  /\ second' = [second EXCEPT !.currentLevel =
                  JsAnd(@, JsNot(getLevelOrDefault(level, second.logLevels, Num(0))))]
  /\ last' = ObservedSecond("second.disableLevel", level)
  /\ UNCHANGED <<staticLevels, staticLevelNames>>
  /\ UNCHANGED <<LazyLog, events>>
  /\ UNCHANGED <<options, logLevels, logLevelNames, externalLog, currentLevel>>

NextInstances ==
  \/ last = Idle /\ \E o \in SecondOptions : MakeSecond(o)
  \/ last = Idle /\ \E value \in SecondRefs : SecondSetLevel(value)
  \/ last = Idle /\ \E level \in SecondRefs : SecondEnableLevel(level)
  \/ last = Idle /\ \E level \in SecondRefs : SecondDisableLevel(level)
  \/ last = Idle /\ \E value \in FewRefs : SetLevel(value)
  \/ last = Idle /\ \E level \in FewRefs : EnableLevel(level)
  \/ last = Idle /\ \E level \in FewRefs : DisableLevel(level)
  \/ Return

SpecInstances == InitArgs /\ [][NextInstances]_vars

-----------------------------------------------------------------------------
(* A logger made without presets and given nothing but the names of the    *)
(* static table, their values, and references that resolve to nothing.     *)

DefaultRefs ==
  {Str(name) : name \in DOMAIN levels}
    \cup {Num(levels[name]) : name \in DOMAIN levels}
    \cup {Str("bogus"), Str("constructor"), Undefined, Null}

InitDefaults ==
  \E level \in DefaultRefs :
    Construct([level |-> level, presets |-> <<>>, log |-> {}])

NextDefaults ==
  \/ last = Idle /\ \E value \in DefaultRefs : SetLevel(value)
  \/ last = Idle /\ \E level \in DefaultRefs : EnableLevel(level)
  \/ last = Idle /\ \E level \in DefaultRefs : DisableLevel(level)
  \/ GetLevel
  \/ Return

SpecDefaults == InitDefaults /\ [][NextDefaults]_vars

-----------------------------------------------------------------------------
(* Instances of the LazyLog class, made one after the other.               *)

\* the instances of the class, defaultLogger included
MaxInstances == 3

LazyOptions ==
  [level : {Undefined, Str("custom")},
   presets : {<<>>, <<Preset("production", 15)>>, <<Preset("custom", 100)>>,
              <<Preset("warn", 3)>>},
   log : {{}}]

LazyRefs == {Str("custom"), Str("production"), Str("warn")}

\* new LazyLog(o)
NewLazyLog(o) ==
  /\ last = Idle
  /\ Len(LazyLog.instances) < MaxInstances
  /\ LazyLog' = [levels |-> newLazyLog(LazyLog.levels, o).levels,
                 instances |-> Append(LazyLog.instances,
                                      newLazyLog(LazyLog.levels, o).instance)]
  /\ last' = ObservedSecond("new LazyLog", o.level)
  /\ UNCHANGED <<staticLevels, staticLevelNames, second, events>>
  /\ UNCHANGED <<options, logLevels, logLevelNames, externalLog, currentLevel>>

\* logger.enableLevel(level) on the instance number i; this.levels is the
\* static table
LazyEnableLevel(i, level) ==
  /\ last = Idle
  /\ LazyLog' = [LazyLog EXCEPT !.instances[i].level =
                   JsOr(@, getLevelOrDefault(level, LazyLog.levels, Num(0)))]
  /\ last' = ObservedSecond("LazyLog.enableLevel", level)
  /\ UNCHANGED <<staticLevels, staticLevelNames, second, events>>
  /\ UNCHANGED <<options, logLevels, logLevelNames, externalLog, currentLevel>>

InitClass ==
  Construct([level |-> Undefined, presets |-> <<>>, log |-> {}])

NextClass ==
  \/ last = Idle /\ \E o \in LazyOptions : NewLazyLog(o)
  \/ last = Idle /\ \E i \in 1..Len(LazyLog.instances), level \in LazyRefs :
                      LazyEnableLevel(i, level)
  \/ Return

SpecClass == InitClass /\ [][NextClass]_vars

-----------------------------------------------------------------------------
(* A logger whose callers pass function arguments that use it.             *)

\* the calls a caller makes one after the other
MaxCalls == 2

UsingArgs ==
  {<<Str("a")>>,
   <<Disabling(Str("error"), Str("x")), Returning(Str("y"))>>,
   <<Assigning(Str("none"), Str("x")), Returning(Str("y"))>>,
   <<Logging("error", Str("inner"), Str("x")), Str("a")>>,
   <<Returning(Str("y")), Logging("info", Str("inner"), Str("x"))>>,
   <<Disabling(Str("info"), Str("x")), Logging("info", Str("inner"), Str("y"))>>,
   <<Throwing(ErrorObj("boom")), Disabling(Str("error"), Str("x"))>>}

UsingMethods == {"error", "info", "log"}

\* the calls the caller has made so far
CallsMade ==
  Len(SelectSeq(events, LAMBDA e : e.kind = "enter" /\ Len(e.call) = 1))

\* what the caller's own call did, out of its events
OwnEvents(run, id, kind) ==
  SelectSeq(run.events, LAMBDA e : e.kind = kind /\ e.call = id)

OutcomeOf(run, id) ==
  [invoked |-> [k \in 1..Len(OwnEvents(run, id, "thunk")) |->
                  [pos |-> OwnEvents(run, id, "thunk")[k].pos, argc |-> 0]],
   output |-> [k \in 1..Len(OwnEvents(run, id, "output")) |->
                 [fn |-> OwnEvents(run, id, "output")[k].fn,
                  args |-> OwnEvents(run, id, "output")[k].args]],
   thrown |-> run.thrown]

\* log.<method>(...args) with function arguments that may use the logger
CallUsingLogger(method, args) ==
  /\ last = Idle
  /\ CallsMade < MaxCalls
  /\ events' = events \o runCall(MethodLevel(method), args, currentLevel,
                                 <<CallsMade + 1>>).events
  /\ currentLevel' = runCall(MethodLevel(method), args, currentLevel,
                             <<CallsMade + 1>>).mask
  /\ last' = Observed("call", method, Undefined, args, Undefined,
                      OutcomeOf(runCall(MethodLevel(method), args, currentLevel,
                                        <<CallsMade + 1>>),
                                <<CallsMade + 1>>))
  /\ UNCHANGED <<staticLevels, staticLevelNames, second, LazyLog>>
  /\ UNCHANGED <<options, logLevels, logLevelNames, externalLog>>

NextUsing ==
  \/ last = Idle /\ \E method \in UsingMethods, args \in UsingArgs :
                      CallUsingLogger(method, args)
  \/ Return

SpecUsing == InitArgs /\ [][NextUsing]_vars

-----------------------------------------------------------------------------
(* The vocabulary of the properties.                                       *)

\* the severity a method logs at
MethodSeverity(method) == IF method = "log" THEN "info" ELSE method

\* a severity is active in a mask when the mask and its value share a bit
SeverityActive(name, mask) == BitAnd(ToInt32V(mask), logLevels[name]) # 0

\* the name registered for the severity's value has an output function
HasBinding(name) ==
  /\ logLevels[name] \in DOMAIN logLevelNames
  /\ logLevelNames[logLevels[name]] \in BaseNames

\* the call in progress passed the gate and has an output function to go to
Dispatched ==
  /\ last.op = "call"
  /\ SeverityActive(MethodSeverity(last.method), last.before)
  /\ HasBinding(MethodSeverity(last.method))

\* the output function of a severity: the caller's, else the console's
BoundFn(name) ==
  IF name \in options.log THEN CustomFn(name) ELSE DefaultFn(name)

\* resolve(ref, fallback) as the specification words it
Resolve(ref, fallback) ==
  IF ref.t = "string"
  THEN IF ref.s \in DOMAIN logLevels THEN logLevels[ref.s]
       ELSE IF ~parseInt(ref.s).nan THEN parseInt(ref.s).n
       ELSE fallback
  ELSE IF ref.t = "number" THEN ref.n
  ELSE fallback

IsThunk(arg) == arg.t = "function"

Throws(arg) == arg.t = "function" /\ arg.act = "throw"

\* what an argument that does not fail becomes
Realized(arg) == IF IsThunk(arg) THEN arg.v ELSE arg

\* the calls made to the function arguments when each is called once, in order
RECURSIVE CallsInOrder(_, _)
CallsInOrder(args, i) ==
  IF i > Len(args) THEN <<>>
  ELSE IF IsThunk(args[i])
  THEN <<[pos |-> i, argc |-> 0]>> \o CallsInOrder(args, i + 1)
  ELSE CallsInOrder(args, i + 1)

Diagnostic(m) == Str("[Error evaluating log argument function: " \o m \o "]")

-----------------------------------------------------------------------------
(* C1 .. C10                                                               *)

\* C1: a call of a severity method, or of log(...), while that severity is
\* not active in the mask calls none of its function arguments and no output
\* function.
ZeroCostGate ==
  (last.op = "call" /\ ~SeverityActive(MethodSeverity(last.method), last.before))
    => (last.invoked = <<>> /\ last.output = <<>>)

\* log.info('a', thunk) on a logger whose mask is error only
ZeroCostGateWitness ==
  /\ last.op = "call"
  /\ last.method = "info"
  /\ last.before = Num(2)
  /\ last.args = <<Str("a"), Returning(Str("y"))>>
  /\ last.invoked = <<>>

\* C2: whatever the options, a call of a severity method while shouldLog of
\* that severity's name is true calls the output function bound to that
\* severity exactly once.
DispatchExactlyOnce ==
  (last.op = "call" /\ last.method \in BaseNames /\ shouldLog(Str(last.method)))
    => (Len(last.output) = 1 /\ last.output[1].fn = BoundFn(last.method))

\* C3: a dispatched call whose function arguments all return hands the output
\* function as many arguments as it got, in the same positions, each function
\* argument called once, with no arguments, from left to right, and replaced
\* by what it returned, every other argument unchanged; with no arguments the
\* output function is still called, with none.
ArgumentRealization ==
  (Dispatched /\ \A i \in 1..Len(last.args) : ~Throws(last.args[i]))
    => /\ Len(last.output) = 1
       /\ Len(last.output[1].args) = Len(last.args)
       /\ \A i \in 1..Len(last.args) :
            last.output[1].args[i] = Realized(last.args[i])
       /\ last.invoked = CallsInOrder(last.args, 1)
       /\ last.thrown = NoException

\* a dispatched call of (thunk, undefined)
ArgumentRealizationWitness ==
  /\ Dispatched
  /\ last.args = <<Returning(Str("y")), Undefined>>
  /\ last.output # <<>>
  /\ last.output[1].args = <<Str("y"), Undefined>>

\* C4: in a dispatched call where the function argument at position i throws
\* an Error with message m and no other argument fails, the output function
\* is called once, position i holds the diagnostic string of m, every other
\* position holds what it holds when nothing fails, and the function
\* arguments after position i are called all the same.
ThunkFailureIsolation ==
  \A i \in 1..Len(last.args) :
    ( /\ Dispatched
      /\ Throws(last.args[i])
      /\ last.args[i].v.t = "error"
      /\ \A j \in 1..Len(last.args) : j # i => ~Throws(last.args[j]) )
    => /\ Len(last.output) = 1
       /\ Len(last.output[1].args) = Len(last.args)
       /\ last.output[1].args[i] = Diagnostic(last.args[i].v.message.s)
       /\ \A j \in 1..Len(last.args) :
            j # i => last.output[1].args[j] = Realized(last.args[j])
       /\ last.invoked = CallsInOrder(last.args, 1)

\* log.error(() => { throw new Error('boom') }, thunk) at an enabled level
ThunkFailureIsolationWitness ==
  /\ Dispatched
  /\ last.args = <<Throwing(ErrorObj("boom")), Returning(Str("y"))>>
  /\ last.output # <<>>
  /\ last.output[1].args =
       <<Str("[Error evaluating log argument function: boom]"), Str("y")>>

\* C5: whatever a function argument throws, the call of the severity method
\* returns normally.
NoThunkExceptionEscapes == last.op = "call" => last.thrown = NoException

\* C6: shouldLog(ref) is true exactly when the mask and resolve(ref, 0) share
\* a bit; it is false for every ref when the mask is 0, and true for a
\* multi-bit ref as soon as one of its bits is active.
ShouldLogIsMaskAnd ==
  last.op = "shouldLog"
    => /\ last.returned =
            Bool(BitAnd(ToInt32V(currentLevel), Resolve(last.ref, 0)) # 0)
       /\ (currentLevel = Num(0) => last.returned = Bool(FALSE))

\* shouldLog('production') on a logger whose mask is error only
ShouldLogIsMaskAndWitness ==
  /\ last.op = "shouldLog"
  /\ last.ref = Str("production")
  /\ currentLevel = Num(2)
  /\ last.returned = Bool(TRUE)

\* C7: a logger constructed with, or set to, one base severity name has that
\* severity alone active: getEnabledLevels() is the list of that one name,
\* shouldLog is false for the seven others and their methods give no output.
SingleSeverityExact ==
  (last.op \in {"makeLog", "setLevel"} /\ last.ref.t = "string"
     /\ last.ref.s \in BaseNames)
    => /\ getEnabledLevels = <<last.ref.s>>
       /\ \A other \in BaseNames \ {last.ref.s} :
            /\ ~shouldLog(Str(other))
            /\ \A args \in SampleArgs :
                 logMessage(MethodLevel(other), args).output = <<>>

\* C8: enableLevel(ref) makes the mask (old mask OR resolve(ref, 0)):
\* shouldLog(ref) is then true when ref resolves to a non-zero value, every
\* bit set before is still set and no bit outside resolve(ref) is newly set.
EnableLevelIsOr ==
  last.op = "enableLevel"
    => /\ currentLevel =
            Num(BitOr(ToInt32V(last.before), Resolve(last.ref, 0)))
       /\ (Resolve(last.ref, 0) # 0 => shouldLog(last.ref))
       /\ BitAnd(ToInt32V(last.before), BitNot(currentLevel.n)) = 0
       /\ BitAnd(BitAnd(currentLevel.n, BitNot(ToInt32V(last.before))),
                 BitNot(Resolve(last.ref, 0))) = 0

\* enableLevel('error') on the mask 4 gives 6
EnableLevelIsOrWitness ==
  /\ last.op = "enableLevel"
  /\ last.ref = Str("error")
  /\ last.before = Num(4)
  /\ currentLevel = Num(6)

\* C9: disableLevel(ref) makes the mask (old mask AND NOT resolve(ref, 0)):
\* shouldLog(ref) is then false, the methods of that severity give no output,
\* and every bit outside resolve(ref) is as it was.
DisableLevelIsAndNot ==
  last.op = "disableLevel"
    => /\ currentLevel =
            Num(BitAnd(ToInt32V(last.before), BitNot(Resolve(last.ref, 0))))
       /\ ~shouldLog(last.ref)
       /\ \A method \in Methods, args \in SampleArgs :
            MethodLevel(method).n = Resolve(last.ref, 0)
              => logMessage(MethodLevel(method), args).output = <<>>
       /\ BitAnd(currentLevel.n, BitNot(Resolve(last.ref, 0)))
            = BitAnd(ToInt32V(last.before), BitNot(Resolve(last.ref, 0)))

\* disableLevel('error') on the mask 7 gives 5
DisableLevelIsAndNotWitness ==
  /\ last.op = "disableLevel"
  /\ last.ref = Str("error")
  /\ last.before = Num(7)
  /\ currentLevel = Num(5)

\* C10: the level option and the level setter store the integer a registered
\* name is bound to, the integer a numeric string parses to, an integer as it
\* is, and the info bit 8 for anything else; the level getter returns it.
LevelResolvesOrInfoBit ==
  last.op \in {"makeLog", "setLevel"}
    => /\ currentLevel = Num(Resolve(last.ref, 8))
       /\ getLevel = Num(Resolve(last.ref, 8))

-----------------------------------------------------------------------------
(* C11 .. C20                                                              *)

\* the bit of a base severity, as the static table gives it
BaseBit(name) == levels[name]

\* a reference that resolves to nothing: a string that is neither a
\* registered name nor a number, or a value that is neither string nor number
Unresolvable(ref) ==
  IF ref.t = "string"
  THEN ref.s \notin DOMAIN logLevels /\ parseInt(ref.s).nan
  ELSE ref.t # "number"

\* the console function of a severity's class
ClassSink(name) ==
  CASE name \in {"fatal", "error"} -> "console.error"
    [] name = "warn" -> "console.warn"
    [] name \in {"info", "debug", "verbose", "trace", "silly"} -> "console.log"

\* C11: getEnabledLevels() returns the base severity names whose bit is set
\* in the mask, in the order fatal, error, warn, info, debug, verbose, trace,
\* silly, and nothing else: no 'none', 'all', 'production', 'development' or
\* preset name, whatever the mask and the presets.
EnabledLevelsAreSetBaseBits ==
  last.op = "getEnabledLevels"
    => /\ last.returned =
            Arr(SelectSeq(SeverityOrder,
                  LAMBDA name : BitAnd(ToInt32V(currentLevel), BaseBit(name)) # 0))
       /\ \A i \in 1..Len(last.returned.items) :
            last.returned.items[i] \in BaseNames

\* C12: log(...args) does what log.info(...args) does in the same state: the
\* same gate decision, the same calls of function arguments, the same output
\* function with the same arguments, the same outcome.
DefaultCallIsInfo ==
  (last.op = "call" /\ last.method = "log")
    => /\ last.invoked = logMessage(MethodLevel("info"), last.args).invoked
       /\ last.output = logMessage(MethodLevel("info"), last.args).output
       /\ last.thrown = logMessage(MethodLevel("info"), last.args).thrown
       /\ (last.output # <<>> => shouldLog(Str("info")))

\* log('a', thunk) reaching the output function given for info
DefaultCallIsInfoWitness ==
  /\ last.op = "call"
  /\ last.method = "log"
  /\ last.args = <<Str("a"), Returning(Str("y"))>>
  /\ last.invoked = <<[pos |-> 2, argc |-> 0]>>
  /\ last.output = <<[fn |-> CustomFn("info"), args |-> <<Str("a"), Str("y")>>]>>

\* C13: enableLevel and disableLevel with an unresolvable reference leave the
\* mask as it was, whatever the mask, and do not raise.
UnresolvableIsNoOp ==
  (last.op \in {"enableLevel", "disableLevel"} /\ Unresolvable(last.ref))
    => (currentLevel = last.before /\ last.thrown = NoException)

\* C14: shouldLog of an unresolvable reference returns false and does not
\* raise, in every state, the mask all included.
ShouldLogFalseOnUnresolvable ==
  (last.op = "shouldLog" /\ Unresolvable(last.ref))
    => (last.returned = Bool(FALSE) /\ last.thrown = NoException)

\* shouldLog('bogus') while the mask is all
ShouldLogFalseOnUnresolvableWitness ==
  /\ last.op = "shouldLog"
  /\ last.ref = Str("bogus")
  /\ currentLevel = Num(255)
  /\ last.returned = Bool(FALSE)

\* C15: a severity named in options.log is bound to the caller's function, any
\* other to console.error (fatal, error), console.warn (warn) or console.log
\* (the five others); the output of a severity's method goes to the function
\* bound to that severity and to no other.
OutputBindings ==
  /\ \A name \in BaseNames :
       externalLog[name] =
         IF name \in options.log THEN CustomFn(name) ELSE ClassSink(name)
  /\ last.op = "call"
       => /\ Len(last.output) <= 1
          /\ \A k \in 1..Len(last.output) :
               last.output[k].fn = externalLog[MethodSeverity(last.method)]

\* the value the caller gave for a preset name
Given(name) == PresetGet(options.presets, name)

\* a name is usable when every operation that takes a reference resolves it
\* to the value: the level option and setter, shouldLog, enableLevel and
\* disableLevel
UsableAs(name, value) ==
  /\ setLevel(Str(name)) = Num(value)
  /\ ((last.op = "makeLog" /\ last.ref = Str(name)) => currentLevel = Num(value))
  /\ shouldLog(Str(name)) = (currentLevel # Num(0)
                             /\ BitAnd(ToInt32V(currentLevel), value) # 0)
  /\ enableLevel(Str(name)) = Num(BitOr(ToInt32V(currentLevel), value))
  /\ disableLevel(Str(name)) = Num(BitAnd(ToInt32V(currentLevel), BitNot(value)))

\* C16: without a preset of that name production is 7 and development is 31;
\* a value given as presets.production or presets.development replaces the
\* default; every other key of presets is registered with its value and is
\* usable by name wherever a level reference is taken.
PresetRegistration ==
  /\ Given("production") = Undefined => logLevels["production"] = 7
  /\ Given("development") = Undefined => logLevels["development"] = 31
  /\ \A i \in 1..Len(options.presets) :
       /\ logLevels[options.presets[i].name] = options.presets[i].value
       /\ UsableAs(options.presets[i].name, options.presets[i].value)

BaseTableIntact ==
  /\ \A i \in 1..Len(SeverityOrder) : logLevels[SeverityOrder[i]] = 2 ^ (i - 1)
  /\ logLevels["none"] = 0
  /\ logLevels["all"] = 255

\* C19: the mask is a non-negative integer in every state.
MaskIsNonNegative == currentLevel.t = "number" /\ currentLevel.n >= 0

SecondOps ==
  {"second.makeLog", "second.setLevel", "second.enableLevel",
   "second.disableLevel"}

\* C20: making a second logger, with whatever presets, and assigning its
\* level or calling its enableLevel or disableLevel changes neither the mask
\* nor the levels and levelNames tables of the first logger; the operations
\* of the first change nothing of the second; and no step changes the
\* exported static tables.
InstancesIndependent ==
  [][ /\ last'.op \in SecondOps
        => /\ currentLevel' = currentLevel
           /\ logLevels' = logLevels
           /\ logLevelNames' = logLevelNames
      /\ last'.op \in {"setLevel", "enableLevel", "disableLevel"}
        => second' = second
      /\ staticLevels' = staticLevels /\ staticLevels = levels
      /\ staticLevelNames' = staticLevelNames /\ staticLevelNames = levelNames
    ]_vars

\* a second logger with a preset of its own and a mask of its own, just
\* changed by its enableLevel, beside a first logger with neither
InstancesIndependentWitness ==
  /\ last.op = "second.enableLevel"
  /\ second # NoInstance
  /\ "custom" \in DOMAIN second.logLevels
  /\ "custom" \notin DOMAIN logLevels
  /\ second.currentLevel # currentLevel
  /\ staticLevels = levels

-----------------------------------------------------------------------------
(* C21 .. C30                                                              *)

ReadingOps == {"call", "shouldLog", "getEnabledLevels", "getLevel"}

\* C21: shouldLog, getEnabledLevels, reading level and every log call whose
\* function arguments leave the logger alone keep the mask as it is, and no
\* operation changes the levels table, the levelNames table or the output
\* bindings.
OnlyMaskOperationsChangeMask ==
  [][ /\ last'.op \in ReadingOps => currentLevel' = currentLevel
      /\ logLevels' = logLevels
      /\ logLevelNames' = logLevelNames
      /\ externalLog' = externalLog
    ]_vars

\* a log call that reached its output function, the mask as before the call
OnlyMaskOperationsChangeMaskWitness ==
  /\ last.op = "call"
  /\ last.args = <<Str("a"), Returning(Str("y"))>>
  /\ last.output # <<>>
  /\ currentLevel = last.before
  /\ currentLevel = Num(6)

\* the name logMessage finds for the level a method passes
RoutedName(method) ==
  IF MethodLevel(method).n \in DOMAIN logLevelNames
  THEN Str(logLevelNames[MethodLevel(method).n])
  ELSE Undefined

\* C22: whatever the options, a call through the method of severity s calls
\* no output function but the one bound to s, and when no function is bound
\* to the name found for the level the call gives no output.
ExclusiveRouting ==
  last.op = "call"
    => /\ last.output # <<>>
            => /\ RoutedName(last.method) = Str(MethodSeverity(last.method))
               /\ \A k \in 1..Len(last.output) :
                    last.output[k].fn = BoundFn(MethodSeverity(last.method))
       /\ (RoutedName(last.method) = Undefined
             \/ RoutedName(last.method).s \notin DOMAIN externalLog)
            => last.output = <<>>

\* the names of the static table, in the order of their declaration
StaticOrder ==
  <<"none", "fatal", "error", "warn", "info", "debug", "verbose", "trace",
    "silly", "all", "production", "development">>

\* the presets that go through the forEach
CustomPresets ==
  SelectSeq(options.presets,
            LAMBDA p : p.name # "production" /\ p.name # "development")

\* every registration of a name under a value at construction, in order:
\* the static table, production, development, the custom presets
Registrations ==
  [i \in 1..Len(StaticOrder) |-> Preset(StaticOrder[i], levels[StaticOrder[i]])]
    \o <<Preset("production", logLevels["production"]),
         Preset("development", logLevels["development"])>>
    \o CustomPresets

LastRegistered(value) ==
  Registrations[CHOOSE i \in 1..Len(Registrations) :
                  /\ Registrations[i].value = value
                  /\ \A j \in (i + 1)..Len(Registrations) :
                       Registrations[j].value # value].name

\* C23: when makeLog returns, levelNames[value] is the name registered last
\* under that value, the order being the static table, production,
\* development, then the custom presets in key order; construction raises
\* nothing.
ReverseTableLastWins ==
  last.op = "makeLog"
    => /\ DOMAIN logLevelNames =
            {Registrations[i].value : i \in 1..Len(Registrations)}
       /\ \A value \in DOMAIN logLevelNames :
            logLevelNames[value] = LastRegistered(value)
       /\ last.thrown = NoException

\* presets { custom: 100, testing: 100 }: levelNames[100] is 'testing'
ReverseTableLastWinsWitness ==
  /\ last.op = "makeLog"
  /\ options.presets = <<Preset("custom", 100), Preset("testing", 100)>>
  /\ logLevels["custom"] = logLevels["testing"]
  /\ logLevelNames[100] = "testing"

\* C27: whenever the caller can ask, after construction and after any
\* operation has returned, for each base severity name n: n is in
\* getEnabledLevels() exactly when shouldLog(n) is true, exactly when a call
\* of log.n passes the gate; and a call of log.n that gave output had
\* shouldLog(n) true.
EnabledIffShouldLogIffGate ==
  /\ last.op \in {"makeLog", "idle"}
       => /\ getEnabledLevels =
               SelectSeq(SeverityOrder, LAMBDA name : shouldLog(Str(name)))
          /\ \A name \in BaseNames :
               shouldLog(Str(name)) = shouldLog(MethodLevel(name))
  /\ last.op = "getEnabledLevels"
       => last.returned.items =
            SelectSeq(SeverityOrder, LAMBDA name : shouldLog(Str(name)))
  /\ (last.op = "call" /\ last.method \in BaseNames /\ last.output # <<>>)
       => shouldLog(Str(last.method))

\* getEnabledLevels() on the mask 6: error and warn, and log.warn would pass
EnabledIffShouldLogIffGateWitness ==
  /\ last.op = "getEnabledLevels"
  /\ currentLevel = Num(6)
  /\ last.returned = Arr(<<"error", "warn">>)
  /\ shouldLog(Str("warn"))
  /\ ~shouldLog(Str("info"))

\* C29: for every value v that is a key of levelNames, levels[levelNames[v]]
\* is v: the reverse table holds no entry for a name whose value was
\* overridden at construction.
ReverseTableConsistent ==
  \A v \in DOMAIN logLevelNames : logLevels[logLevelNames[v]] = v

MaskOps == {"enableLevel", "disableLevel"}

\* enableLevel(ref) or disableLevel(ref) on a mask
Apply(op, mask, ref) ==
  IF op = "enableLevel" THEN enableLevelAt(mask, ref)
  ELSE disableLevelAt(mask, ref)

\* C28: from every mask a logger holds when an operation may start,
\* enableLevel(ref) and disableLevel(ref) done twice give the mask they give
\* done once, and for two distinct base severities a and b an enableLevel or
\* disableLevel of a and an enableLevel or disableLevel of b give the same
\* mask in either order.
MaskOpsIdempotentAndCommute ==
  last.op \in {"makeLog", "idle"}
    => /\ \A ref \in LevelRefs :
            /\ enableLevelAt(enableLevel(ref), ref) = enableLevel(ref)
            /\ disableLevelAt(disableLevel(ref), ref) = disableLevel(ref)
       /\ \A a \in BaseNames, b \in BaseNames, opa \in MaskOps, opb \in MaskOps :
            a # b
              => Apply(opb, Apply(opa, currentLevel, Str(a)), Str(b))
                   = Apply(opa, Apply(opb, currentLevel, Str(b)), Str(a))

\* C30: a logger made without presets and given only default names, their
\* values and unresolvable references keeps its mask within 0..255.
MaskWithinByte ==
  currentLevel.t = "number" /\ currentLevel.n \in 0..255

\* the names a LazyLog made with these presets may know
NamesOf(presets) ==
  DOMAIN LazyLogLevels \cup {"production", "development"}
    \cup {presets[i].name : i \in 1..Len(presets)}

RECURSIVE MaskAfter(_, _, _)
MaskAfter(args, i, mask) ==
  IF i > Len(args) THEN mask
  ELSE IF IsThunk(args[i]) /\ args[i].act = "disableLevel"
  THEN MaskAfter(args, i + 1,
         Num(BitAnd(ToInt32V(mask), BitNot(Resolve(args[i].ref, 0)))))
  ELSE IF IsThunk(args[i]) /\ args[i].act = "level"
  THEN MaskAfter(args, i + 1, Num(Resolve(args[i].ref, 8)))
  ELSE MaskAfter(args, i + 1, mask)

\* C25: the gate is asked once, with the mask the call starts with: a call
\* that passes it calls every function argument and its output function even
\* when a function argument disables the severity or sets the level to none
\* on the way; the mask those arguments leave is the mask after the call, and
\* a call that starts with the severity inactive does nothing.
GateEvaluatedOnce ==
  /\ (Dispatched /\ \A i \in 1..Len(last.args) : ~Throws(last.args[i]))
       => /\ last.invoked = CallsInOrder(last.args, 1)
          /\ Len(last.output) = 1
          /\ Len(last.output[1].args) = Len(last.args)
          /\ \A i \in 1..Len(last.args) :
               last.output[1].args[i] = Realized(last.args[i])
          /\ currentLevel = MaskAfter(last.args, 1, last.before)
  /\ (last.op = "call"
        /\ ~SeverityActive(MethodSeverity(last.method), last.before))
       => (last.invoked = <<>> /\ last.output = <<>>
             /\ currentLevel = last.before)

\* log.error(() => { log.disableLevel('error'); return 'x' }, thunk): both
\* function arguments called, the output given, error disabled afterwards
GateEvaluatedOnceWitness ==
  /\ last.op = "call"
  /\ last.method = "error"
  /\ last.args = <<Disabling(Str("error"), Str("x")), Returning(Str("y"))>>
  /\ last.invoked = <<[pos |-> 1, argc |-> 0], [pos |-> 2, argc |-> 0]>>
  /\ Len(last.output) = 1
  /\ last.output[1].args = <<Str("x"), Str("y")>>
  /\ shouldLogAt(last.before, Str("error"))
  /\ ~shouldLog(Str("error"))

\* C26: in the events of a logger, a call's function arguments are all
\* called before its output function; the outputs of the caller's successive
\* calls come in the order of the calls; and the output of a call made by a
\* function argument comes before the output of the call it was made in.
EffectsInOrder ==
  \A i \in 1..Len(events), j \in 1..Len(events) :
    /\ (events[i].kind = "thunk" /\ events[j].kind = "output"
          /\ events[i].call = events[j].call)
         => i < j
    /\ (events[i].kind = "output" /\ events[j].kind = "output"
          /\ Len(events[i].call) = 1 /\ Len(events[j].call) = 1
          /\ events[i].call[1] < events[j].call[1])
         => i < j
    /\ (events[i].kind = "output" /\ events[j].kind = "output"
          /\ Len(events[i].call) = 2 /\ events[j].call = <<events[i].call[1]>>)
         => i < j

\* two calls with output, the first with a call made by its function
\* argument whose output came first
EffectsInOrderWitness ==
  \E i \in 1..Len(events), j \in 1..Len(events), k \in 1..Len(events) :
    /\ i < j /\ j < k
    /\ events[i].kind = "output" /\ events[i].call = <<1, 1>>
    /\ events[j].kind = "output" /\ events[j].call = <<1>>
    /\ events[k].kind = "output" /\ events[k].call = <<2>>
    /\ \E t \in 1..(j - 1) : events[t].kind = "thunk" /\ events[t].call = <<1>>

====
